---- MODULE Spec2Model ----
(***************************************************************************)
(* Library application with two persistence backends (relational "sql"    *)
(* and document "mongo"), a per-session backend selector and view         *)
(* handlers that fall back from mongo to sql on MongoUnavailableError.    *)
(*                                                                         *)
(* A request is a process: it is split at the repository calls, which are *)
(* the points where requests served by different workers interleave.      *)
(***************************************************************************)
EXTENDS Integers, Sequences, FiniteSets, TLC

VARIABLES
    session,      \* session[s]: value stored under SESSION_KEY ("none" = key absent)
    pymongo,      \* TRUE iff the pymongo/bson import succeeded (MongoClient is not None)
    mongoUp,      \* TRUE iff the MongoDB server answers
    mongoClient,  \* MongoDataSource._client: "none", "unprobed" (assigned, its ping
                  \* has not returned) or "open"
    mongoBooks,   \* books collection: sequence of documents, _id = OidTok(index)
    sqlBooks,     \* Book table: sequence of rows, pk = index
    mongoLoans,   \* loans collection: sequence of documents, _id = OidTok(index)
    sqlLoans,     \* Loan table: sequence of rows, pk = index
    mongoUsers,   \* library_users collection: the ids of its documents
    mongoAuthors, \* authors collection: the ids of its documents
    mongoRatings, \* ratings collection: sequence of documents
    sqlRatings,   \* Rating table: sequence of rows
    req           \* req[r]: the request handled by worker r

vars == <<session, pymongo, mongoUp, mongoClient, mongoBooks, sqlBooks, mongoLoans, sqlLoans,
          mongoUsers, mongoAuthors, mongoRatings, sqlRatings, req>>

----------------------------------------------------------------------------
\* Bounds and data universes

\* at most this many loans are ever created, in both backends together
MaxLoans == 2
\* at most this many books are ever stored, in both backends together
MaxBooks == 3
\* at most this many ratings are ever stored, in both backends together
MaxRatings == 1

Workers == {"w1", "w2"}
Sessions == {"s1"}

\* data_sources.py
DATA_SOURCE_SQL == "sql"
DATA_SOURCE_MONGO == "mongo"
DATA_SOURCE_CHOICES == {DATA_SOURCE_SQL, DATA_SOURCE_MONGO}

\* A raw id as it arrives in the URL or in a form: the class of its characters,
\* its length, and the number it spells.
Tok(c, l, n) == [chars |-> c, len |-> l, n |-> n]
SqlTok(n) == Tok("digits", 1, n)
OidTok(n) == Tok("hex", 24, n)
BadTok == Tok("other", 3, 0)
NoTok == Tok("other", 0, 0)

\* Users and authors exist before the first request; no handler creates them.
\* The documents of library_users and authors may be deleted outside the
\* application; the rows of LibraryUser and Author are kept (on_delete=CASCADE
\* would take their books and loans with them).
SqlUsers == {1}
MongoUsers == {1}
SqlAuthors == {1}
MongoAuthors == {1}
AuthorToks == {SqlTok(1), OidTok(1)}

BookToks == {SqlTok(1), OidTok(1), BadTok}
UserToks == {SqlTok(1), OidTok(1)}
LoanToks == {SqlTok(n) : n \in 1..MaxLoans} \cup {OidTok(n) : n \in 1..MaxLoans} \cup {BadTok}

----------------------------------------------------------------------------
\* data_sources.py

get_active_data_source(s) ==
    LET source == IF session[s] = "none" THEN DATA_SOURCE_SQL ELSE session[s]
    IN  IF source \notin DATA_SOURCE_CHOICES THEN DATA_SOURCE_SQL ELSE source

set_active_data_source(s, source) ==
    LET src == IF source \notin DATA_SOURCE_CHOICES THEN DATA_SOURCE_SQL ELSE source
    IN  session' = [session EXCEPT ![s] = src]

----------------------------------------------------------------------------
\* views.py: identifiers

\* _parse_sql_id: a digit string becomes its integer, anything else is a 404
SqlIdOk(t) == t.chars = "digits" /\ t.len > 0
_parse_sql_id(t) == t.n

----------------------------------------------------------------------------
\* mongo_repository.py: connection and identifiers

is_available == pymongo

\* ObjectId(str(raw_id)) accepts 24 hexadecimal characters
ObjectIdOk(t) == t.len = 24 /\ t.chars \in {"hex", "digits"}
\* the documents of the model all carry ids with a hexadecimal letter
_object_id(t) == IF t.chars = "hex" THEN t.n ELSE 0

\* Outcome of one access to self.db followed by the query made on it:
\* _require_client raises MongoUnavailableError when the driver is missing or
\* when a new client fails its ping; a cached client is returned unchecked,
\* and the query on it fails with the driver's own error when the server is down.
DbOutcome ==
    IF ~is_available THEN "unavailable"
    ELSE IF mongoClient = "none"
         THEN IF mongoUp THEN "ok" ELSE "unavailable"
         ELSE IF mongoUp THEN "ok" ELSE "driver_error"

\* Mutant of ClientAfter: the client assigned before a failed ping stays cached
ClientAfter_kept ==
    IF is_available /\ mongoClient = "none" THEN "open" ELSE mongoClient

\* self._client after that access
ClientAfter ==
    IF is_available /\ mongoClient = "none" /\ mongoUp THEN "open" ELSE mongoClient

----------------------------------------------------------------------------
\* Stored books and loans

Book(t, y, a) == [title |-> t, year |-> y, author |-> a]
NoBook == Book("", 0, 0)
MongoBooks == DOMAIN mongoBooks
SqlBooks == DOMAIN sqlBooks

Loan(b, u, sd, ed, ret) ==
    [book |-> b, user |-> u, start_date |-> sd, end_date |-> ed, returned |-> ret]
NoLoan == Loan(0, 0, 0, 0, FALSE)

\* A rating: its name and its rating (comments are optional free text)
Rating(n, v) == [name |-> n, rating |-> v]

\* loans.find_one({'book_id': b, 'returned': False})
MongoHasActive(b) ==
    \E i \in 1..Len(mongoLoans) : mongoLoans[i].book = b /\ ~mongoLoans[i].returned

\* Mutant of is_loaned: the filter on returned is dropped
is_loaned_ever(b) == \E i \in 1..Len(sqlLoans) : sqlLoans[i].book = b

\* models.py Book.is_loaned: self.loans.filter(returned=False).exists()
is_loaned(b) ==
    \E i \in 1..Len(sqlLoans) : sqlLoans[i].book = b /\ ~sqlLoans[i].returned

\* A Book value handed to the caller, with what its is_loaned() answers
BookVal(be, n, l, a) == [be |-> be, n |-> n, loaned |-> l, author |-> a]

\* MongoAuthor(id, name); the authors of the model are all named "name"
MongoAuthor(id, name) == [id |-> id, name |-> name]
\* authors.find_one / author_map.get(...) with the default of list_books and
\* get_book_detail
AuthorOrUnknown(a) ==
    IF a \in mongoAuthors THEN MongoAuthor(a, "name")
    ELSE MongoAuthor(0, "Autor desconocido")
\* book.author of a Book row
SqlAuthor(b) == MongoAuthor(sqlBooks[b].author, "name")

----------------------------------------------------------------------------
\* mongo_repository.py: repository methods.  Each returns its outcome (res),
\* whether it reached self.db (db) and its value (val).

Out(res, db, val) == [res |-> res, db |-> db, val |-> val]

list_books ==
    IF DbOutcome # "ok" THEN Out(DbOutcome, TRUE, {})
    ELSE Out("ok", TRUE, {BookVal("mongo", b, MongoHasActive(b), AuthorOrUnknown(mongoBooks[b].author)) :
                        b \in MongoBooks})

get_book_detail(t) ==
    IF ~pymongo THEN Out("runtime_error", FALSE, {})
    ELSE IF ~ObjectIdOk(t) THEN Out("http404", FALSE, {})
    ELSE IF DbOutcome # "ok" THEN Out(DbOutcome, TRUE, {})
    ELSE IF _object_id(t) \notin MongoBooks THEN Out("http404", TRUE, {})
    ELSE Out("ok", TRUE,
             {BookVal("mongo", _object_id(t), MongoHasActive(_object_id(t)),
                      AuthorOrUnknown(mongoBooks[_object_id(t)].author))})

get_book(t) == get_book_detail(t)

\* self.db is evaluated before the argument self._object_id(raw_user_id)
get_user(t) ==
    IF DbOutcome # "ok" THEN Out(DbOutcome, TRUE, {})
    ELSE IF ~ObjectIdOk(t) THEN Out("http404", TRUE, {})
    ELSE IF _object_id(t) \notin mongoUsers THEN Out("http404", TRUE, {})
    ELSE Out("ok", TRUE, {_object_id(t)})

\* _books_by_id builds MongoBook without _is_loaned, which defaults to False;
\* its default for an author that is not found is MongoAuthor(id='', name='Autor')
_books_by_id(ids) ==
    {BookVal("mongo", b, FALSE,
             IF mongoBooks[b].author \in mongoAuthors
             THEN MongoAuthor(mongoBooks[b].author, "name")
             ELSE MongoAuthor(0, "Autor")) : b \in ids \cap MongoBooks}

list_user_loans(t) ==
    LET u == get_user(t)
        mine == {i \in 1..Len(mongoLoans) : mongoLoans[i].user = _object_id(t)}
    IN  IF u.res # "ok" THEN u
        ELSE Out("ok", TRUE, _books_by_id({mongoLoans[i].book : i \in mine}))

user_choices ==
    IF DbOutcome # "ok" THEN Out(DbOutcome, TRUE, {})
    ELSE Out("ok", TRUE, {OidTok(u) : u \in mongoUsers})

get_loan(t) ==
    IF ~pymongo THEN Out("runtime_error", FALSE, {})
    ELSE IF ~ObjectIdOk(t) THEN Out("http404", FALSE, {})
    ELSE IF DbOutcome # "ok" THEN Out(DbOutcome, TRUE, {})
    ELSE IF _object_id(t) \notin 1..Len(mongoLoans) THEN Out("http404", TRUE, {})
    ELSE LET doc == mongoLoans[_object_id(t)]
             u == get_user(OidTok(doc.user))
             b == get_book(OidTok(doc.book))
         IN  IF u.res # "ok" THEN u
             ELSE IF b.res # "ok" THEN b
             ELSE Out("ok", TRUE, b.val)

author_choices ==
    IF DbOutcome # "ok" THEN Out(DbOutcome, TRUE, {})
    ELSE Out("ok", TRUE, {OidTok(a) : a \in mongoAuthors})

\* update_book: update_one({'_id': oid}, {'$set': {title, year, author_id}})
update_book(n, data) ==
    [i \in 1..Len(mongoBooks) |->
        IF i = n THEN Book(data.title, data.year, _object_id(data.author))
        ELSE mongoBooks[i]]

\* create_book: insert_one({title, year, author_id, created_at}); a year of 0
\* is stored as None
create_book(data) ==
    Append(mongoBooks, Book(data.title, data.year, _object_id(data.author)))

\* create_rating: insert_one({name, comments, rating, created_at})
create_rating(data) == Append(mongoRatings, Rating(data.name, data.rating))

\* Mutant of create_loan_find: the unreturned loan is not looked for
create_loan_find_unchecked(b) ==
    IF DbOutcome # "ok" THEN Out(DbOutcome, TRUE, {}) ELSE Out("ok", TRUE, {})

\* create_loan up to the raise: the query for an unreturned loan of the book
create_loan_find(b) ==
    IF DbOutcome # "ok" THEN Out(DbOutcome, TRUE, {})
    ELSE IF MongoHasActive(b) THEN Out("value_error", TRUE, {})
    ELSE Out("ok", TRUE, {})

\* Mutant of create_loan_insert: the payload replaces the book's latest loan
create_loan_replace(b, data) ==
    LET old == {i \in 1..Len(mongoLoans) : mongoLoans[i].book = b}
        new == Loan(b, _object_id(data.user), data.start_date, data.end_date, FALSE)
    IN  IF old = {} THEN Append(mongoLoans, new)
        ELSE [i \in 1..Len(mongoLoans) |->
                 IF i = CHOOSE m \in old : \A k \in old : k <= m THEN new ELSE mongoLoans[i]]

\* create_loan from the payload on: insert_one
create_loan_insert(b, data) ==
    Append(mongoLoans,
           Loan(b, _object_id(data.user), data.start_date, data.end_date, FALSE))

\* mark_loan_returned: update_one({'_id': oid}, {'$set': {'returned': True}})
mark_loan_returned(n) ==
    [i \in 1..Len(mongoLoans) |->
        IF i = n THEN [mongoLoans[i] EXCEPT !.returned = TRUE] ELSE mongoLoans[i]]

----------------------------------------------------------------------------
\* forms.py

\* MongoBookForm: title is required, year has min_value=0, author is a choice
MongoBookFormErrors(data, choices) ==
    (IF data.title = "" THEN {"title"} ELSE {})
    \cup (IF data.year < 0 THEN {"year"} ELSE {})
    \cup (IF data.author \in choices THEN {} ELSE {"author"})

\* BookForm: the same fields; author is a pk of Author
BookFormErrors(data) ==
    (IF data.title = "" THEN {"title"} ELSE {})
    \cup (IF data.year < 0 THEN {"year"} ELSE {})
    \cup (IF SqlIdOk(data.author) /\ _parse_sql_id(data.author) \in SqlAuthors
          THEN {} ELSE {"author"})

\* Mutant of MongoLoanFormErrors: clean() does not compare the dates
MongoLoanFormErrors_nodates(data, choices) ==
    IF data.user \in choices THEN {} ELSE {"user"}

\* MongoLoanForm: user must be one of the choices; clean() rejects end < start
MongoLoanFormErrors(data, choices) ==
    (IF data.user \in choices THEN {} ELSE {"user"})
    \cup (IF data.end_date < data.start_date THEN {"end_date"} ELSE {})

\* LoanForm.clean: the date order, then book.is_loaned()
LoanFormClean(data, b) ==
    (IF data.end_date < data.start_date THEN {"end_date"} ELSE {})
    \cup (IF is_loaned(b) THEN {"conflict"} ELSE {})

\* models.py Loan.clean on an instance (pk is None for a new loan)
LoanClean(row, pk) ==
    (IF row.end_date < row.start_date THEN {"end_date"} ELSE {})
    \cup (IF row.book # 0 /\ ~row.returned
             /\ \E i \in 1..Len(sqlLoans) :
                    i # pk /\ sqlLoans[i].book = row.book /\ ~sqlLoans[i].returned
          THEN {"conflict"} ELSE {})

\* LoanForm.is_valid: the user field (a pk of LibraryUser), clean(), and the
\* model's clean() run by the ModelForm
LoanFormErrors(data, b) ==
    (IF SqlIdOk(data.user) /\ _parse_sql_id(data.user) \in SqlUsers THEN {} ELSE {"user"})
    \cup LoanFormClean(data, b)
    \cup LoanClean(Loan(b, 0, data.start_date, data.end_date, FALSE), 0)

\* MongoRatingForm: name is required, rating is one of the choices '1'..'10'
MongoRatingFormErrors(data) ==
    (IF data.name = "" THEN {"name"} ELSE {})
    \cup (IF data.rating \in 1..10 THEN {} ELSE {"rating"})

\* RatingForm: the ModelForm of Rating, with the same two constraints
RatingFormErrors(data) ==
    (IF data.name = "" THEN {"name"} ELSE {})
    \cup (IF data.rating \in 1..10 THEN {} ELSE {"rating"})

----------------------------------------------------------------------------
\* Requests

NoForm ==
    [user |-> NoTok, start_date |-> 0, end_date |-> 0, confirm |-> FALSE,
     title |-> "", year |-> 0, author |-> NoTok, name |-> "", rating |-> 0]

IdleReq ==
    [pc |-> "idle", op |-> "none", sess |-> "none", method |-> "GET", id |-> NoTok,
     form |-> NoForm, start |-> "none", ds |-> "none", calls |-> <<>>,
     notices |-> <<>>, outcome |-> "none", errors |-> {}, books |-> {},
     book |-> 0, loan |-> 0, row |-> NoLoan, writes |-> <<>>,
     opened |-> FALSE, handle |-> "unset"]

InFlight(r) == req[r].pc \notin {"idle", "done"}

Call(be, op, res) == [be |-> be, op |-> op, res |-> res]
Notice(level, text) == [level |-> level, text |-> text]
Write(be, coll, n) == [be |-> be, coll |-> coll, n |-> n]

\* What a request may carry, per handler
DatePairs == {<<1, 1>>, <<1, 2>>, <<2, 1>>}
LoanForms ==
    {[NoForm EXCEPT !.user = u, !.start_date = d[1], !.end_date = d[2]] :
        u \in UserToks, d \in DatePairs}
BookForms ==
    {[NoForm EXCEPT !.title = t, !.year = y, !.author = a] :
        t \in {"", "t1"}, y \in {-1, 1}, a \in AuthorToks}
ReturnForms == {[NoForm EXCEPT !.confirm = c] : c \in BOOLEAN}
RatingForms == {[NoForm EXCEPT !.name = n, !.rating = v] : n \in {"", "n1"}, v \in {0, 5}}

Inputs(op) ==
    CASE op = "book_list" -> {<<"GET", NoTok, NoForm>>}
      [] op = "book_detail" -> {<<"GET", t, NoForm>> : t \in BookToks}
      [] op = "user_loans" -> {<<"GET", t, NoForm>> : t \in UserToks \cup {BadTok}}
      [] op = "book_edit" ->
            {<<"GET", t, NoForm>> : t \in BookToks}
            \cup {<<"POST", t, f>> : t \in BookToks, f \in BookForms}
      [] op = "loan_create" ->
            {<<"GET", t, NoForm>> : t \in BookToks}
            \cup {<<"POST", t, f>> : t \in BookToks, f \in LoanForms}
      [] op = "loan_return" ->
            {<<"GET", t, NoForm>> : t \in LoanToks}
            \cup {<<"POST", t, f>> : t \in LoanToks, f \in ReturnForms}
      [] op = "book_create" ->
            {<<"GET", NoTok, NoForm>>} \cup {<<"POST", NoTok, f>> : f \in BookForms}
      [] op = "rating_create" ->
            {<<"GET", NoTok, NoForm>>} \cup {<<"POST", NoTok, f>> : f \in RatingForms}

\* Submissions whose fields are valid on one of the backends
RaceInputs(op) ==
    {in \in Inputs(op) :
        /\ in[1] = "POST"
        /\ in[2] # BadTok
        /\ op = "loan_create" => in[3].start_date < in[3].end_date
        /\ op = "loan_return" => in[3].confirm}

DomainOps ==
    {"book_list", "book_detail", "book_edit", "user_loans", "loan_create", "loan_return"}

\* The first repository call of each handler's Mongo branch
MongoEntry(op) ==
    CASE op = "book_list" -> "m:list_books"
      [] op = "book_detail" -> "m:get_book_detail"
      [] op = "user_loans" -> "m:get_user"
      [] op = "book_edit" -> "m:edit_get_book"
      [] op = "loan_create" -> "m:get_book"
      [] op = "loan_return" -> "m:get_loan"
      [] op = "book_create" -> "m:create_author_choices"
      [] op = "rating_create" -> "m:rating_create"

\* The handler's "if data_source == DATA_SOURCE_SQL" branch
SqlEntry(op) ==
    CASE op = "book_list" -> "s:book_list"
      [] op = "book_detail" -> "s:book_detail"
      [] op = "user_loans" -> "s:user_loans"
      [] op = "book_edit" -> "s:book_edit"
      [] op = "loan_create" -> "s:loan_create"
      [] op = "loan_return" -> "s:loan_return"
      [] op = "book_create" -> "s:book_create"
      [] op = "rating_create" -> "s:rating_create"

\* Loans that requests in flight may still insert
Creating ==
    Cardinality({r \in Workers : InFlight(r) /\ req[r].op = "loan_create"
                                  /\ req[r].method = "POST"})

\* Books and ratings that requests in flight may still insert
CreatingOf(op) ==
    Cardinality({r \in Workers : InFlight(r) /\ req[r].op = op /\ req[r].method = "POST"})

\* A worker is free when it holds no request
Free(r) == req[r].pc = "idle"

\* First line of every handler: data_source = get_active_data_source(request)
BeginWith(r, op, ins) ==
    /\ Free(r)
    /\ \E s \in Sessions :
       \E in \in ins :
          LET src == get_active_data_source(s) IN
          /\ (op = "loan_create" /\ in[1] = "POST") =>
                Len(mongoLoans) + Len(sqlLoans) + Creating < MaxLoans
          /\ (op = "book_create" /\ in[1] = "POST") =>
                Len(mongoBooks) + Len(sqlBooks) + CreatingOf(op) < MaxBooks
          /\ (op = "rating_create" /\ in[1] = "POST") =>
                Len(mongoRatings) + Len(sqlRatings) + CreatingOf(op) < MaxRatings
          /\ req' = [req EXCEPT ![r] =
                [IdleReq EXCEPT !.op = op, !.sess = s, !.method = in[1],
                                !.id = in[2], !.form = in[3], !.start = src,
                                !.ds = src,
                                !.pc = IF src = DATA_SOURCE_MONGO
                                       THEN MongoEntry(op) ELSE SqlEntry(op)]]
    /\ UNCHANGED <<session, pymongo, mongoUp, mongoClient, mongoBooks, sqlBooks, mongoLoans, sqlLoans, mongoUsers, mongoAuthors, mongoRatings, sqlRatings>>

Begin(r) == \E op \in DomainOps : BeginWith(r, op, Inputs(op))

\* The response has been sent; the worker is free for the next request
End(r) ==
    /\ req[r].pc = "done"
    /\ req' = [req EXCEPT ![r] = IdleReq]
    /\ UNCHANGED <<session, pymongo, mongoUp, mongoClient, mongoBooks, sqlBooks, mongoLoans, sqlLoans, mongoUsers, mongoAuthors, mongoRatings, sqlRatings>>

Finish(q, outcome) == [q EXCEPT !.pc = "done", !.outcome = outcome]

\* Mutant of _fallback_to_sql: no message is attached
_fallback_silent(r, q) ==
    /\ set_active_data_source(q.sess, DATA_SOURCE_SQL)
    /\ req' = [req EXCEPT ![r] = [q EXCEPT !.ds = DATA_SOURCE_SQL, !.pc = SqlEntry(q.op)]]

\* Mutant of _fallback_to_sql: the session is not written
_fallback_local(r, q) ==
    /\ UNCHANGED session
    /\ req' = [req EXCEPT ![r] =
          [q EXCEPT !.notices = Append(@, Notice("error", "mongo_unavailable")),
                    !.ds = DATA_SOURCE_SQL,
                    !.pc = SqlEntry(q.op)]]

\* views.py _fallback_to_sql, then the handler goes on to its SQL branch
_fallback_to_sql(r, q) ==
    /\ set_active_data_source(q.sess, DATA_SOURCE_SQL)
    /\ req' = [req EXCEPT ![r] =
          [q EXCEPT !.notices = Append(@, Notice("error", "mongo_unavailable")),
                    !.ds = DATA_SOURCE_SQL,
                    !.pc = SqlEntry(q.op)]]

\* Mutant of MongoRaised: after MongoUnavailableError the Mongo call is tried again
MongoRaisedRetry(r, q, res) ==
    IF res = "unavailable"
    THEN /\ set_active_data_source(q.sess, DATA_SOURCE_SQL)
         /\ req' = [req EXCEPT ![r] =
               [q EXCEPT !.notices = Append(@, Notice("error", "mongo_unavailable"))]]
    ELSE /\ req' = [req EXCEPT ![r] = Finish(q, res)]
         /\ UNCHANGED session

\* Mutant of MongoRaised: Http404 is caught like MongoUnavailableError
MongoRaisedBroad(r, q, res) ==
    IF res \in {"unavailable", "http404"}
    THEN /\ set_active_data_source(q.sess, DATA_SOURCE_SQL)
         /\ req' = [req EXCEPT ![r] =
               [q EXCEPT !.notices = Append(@, Notice("error", "mongo_unavailable")),
                         !.ds = DATA_SOURCE_SQL,
                         !.pc = SqlEntry(q.op)]]
    ELSE /\ req' = [req EXCEPT ![r] = Finish(q, res)]
         /\ UNCHANGED session

\* A Mongo repository call of request r ended with an exception: only
\* MongoUnavailableError is caught by the handler, the others end the request
MongoRaised(r, q, res) ==
    IF res = "unavailable"
    THEN _fallback_to_sql(r, q)
    ELSE /\ req' = [req EXCEPT ![r] = Finish(q, res)]
         /\ UNCHANGED session

\* Request r calls Mongo repository method `op`, whose outcome is `out`
Called(r, op, out) ==
    [req[r] EXCEPT !.calls = Append(@, Call("mongo", op, out.res))]

Connect(out) == mongoClient' = IF out.db THEN ClientAfter ELSE mongoClient

\* Request r enters its SQL branch
SqlRun(r) == [req[r] EXCEPT !.calls = Append(@, Call("sql", req[r].op, "ok"))]

----------------------------------------------------------------------------
\* views.py change_data_source (POST only)

\* Mutant of change_data_source: the switch to mongo is not refused when
\* pymongo is missing
change_data_source_unguarded(r) ==
    /\ Free(r)
    /\ \E s \in Sessions, source \in {DATA_SOURCE_SQL, DATA_SOURCE_MONGO, "other"} :
       LET q == [IdleReq EXCEPT !.op = "change_data_source", !.sess = s,
                                !.method = "POST", !.form = [NoForm EXCEPT !.user = Tok(source, 0, 0)],
                                !.start = get_active_data_source(s),
                                !.ds = get_active_data_source(s)]
       IN  IF source \notin {DATA_SOURCE_SQL, DATA_SOURCE_MONGO}
           THEN /\ req' = [req EXCEPT ![r] = Finish(q, "bad_request")]
                /\ UNCHANGED session
           ELSE /\ set_active_data_source(s, source)
                /\ req' = [req EXCEPT ![r] =
                      Finish([q EXCEPT !.notices = <<Notice("info", source)>>],
                             "redirect")]
    /\ UNCHANGED <<pymongo, mongoUp, mongoBooks, sqlBooks, mongoClient, mongoLoans, sqlLoans, mongoUsers, mongoAuthors, mongoRatings, sqlRatings>>

change_data_source(r) ==
    /\ Free(r)
    /\ \E s \in Sessions, source \in {DATA_SOURCE_SQL, DATA_SOURCE_MONGO, "other"} :
       LET q == [IdleReq EXCEPT !.op = "change_data_source", !.sess = s,
                                !.method = "POST", !.form = [NoForm EXCEPT !.user = Tok(source, 0, 0)],
                                !.start = get_active_data_source(s),
                                !.ds = get_active_data_source(s)]
       IN  IF source \notin {DATA_SOURCE_SQL, DATA_SOURCE_MONGO}
           THEN /\ req' = [req EXCEPT ![r] = Finish(q, "bad_request")]
                /\ UNCHANGED session
           ELSE IF source = DATA_SOURCE_MONGO /\ ~is_available
           THEN /\ req' = [req EXCEPT ![r] =
                      Finish([q EXCEPT !.notices = <<Notice("error", "mongo_missing")>>],
                             "redirect")]
                /\ UNCHANGED session
           ELSE /\ set_active_data_source(s, source)
                /\ req' = [req EXCEPT ![r] =
                      Finish([q EXCEPT !.notices = <<Notice("info", source)>>],
                             "redirect")]
    /\ UNCHANGED <<pymongo, mongoUp, mongoBooks, sqlBooks, mongoClient, mongoLoans, sqlLoans, mongoUsers, mongoAuthors, mongoRatings, sqlRatings>>

----------------------------------------------------------------------------
\* views.py book_list

book_list_mongo(r) ==
    /\ req[r].pc = "m:list_books"
    /\ LET out == list_books
           q == Called(r, "list_books", out)
       IN  /\ Connect(out)
           /\ IF out.res = "ok"
              THEN /\ req' = [req EXCEPT ![r] =
                         Finish([q EXCEPT !.books = out.val], "render")]
                   /\ UNCHANGED session
              ELSE MongoRaised(r, q, out.res)
    /\ UNCHANGED <<pymongo, mongoUp, mongoBooks, sqlBooks, mongoLoans, sqlLoans, mongoUsers, mongoAuthors, mongoRatings, sqlRatings>>

book_list_sql(r) ==
    /\ req[r].pc = "s:book_list"
    /\ req' = [req EXCEPT ![r] =
          Finish([SqlRun(r) EXCEPT
                    !.books = {BookVal("sql", b, is_loaned(b), SqlAuthor(b)) : b \in SqlBooks}],
                 "render")]
    /\ UNCHANGED <<session, pymongo, mongoUp, mongoClient, mongoBooks, sqlBooks, mongoLoans, sqlLoans, mongoUsers, mongoAuthors, mongoRatings, sqlRatings>>

----------------------------------------------------------------------------
\* book_list on Mongo with _require_client taken statement by statement, as
\* requests served by two threads of one process interleave in it.  The
\* request records whether it constructed a MongoClient (opened) and the value
\* _require_client returned to it (handle).

\* "if not self.is_available(): raise ...", "if self._client is None:"
_require_client_check(r) ==
    /\ req[r].pc = "m:list_books"
    /\ IF ~is_available
       THEN MongoRaised(r, Called(r, "list_books", Out("unavailable", TRUE, {})), "unavailable")
       ELSE /\ req' = [req EXCEPT ![r] =
                  [req[r] EXCEPT !.pc = IF mongoClient = "none" THEN "c:MongoClient"
                                        ELSE "c:return"]]
            /\ UNCHANGED session
    /\ UNCHANGED <<pymongo, mongoUp, mongoClient, mongoBooks, sqlBooks, mongoLoans, sqlLoans, mongoUsers, mongoAuthors, mongoRatings, sqlRatings>>

\* "self._client = MongoClient(...)": the constructor does not wait for the
\* server
_require_client_assign(r) ==
    /\ req[r].pc = "c:MongoClient"
    /\ mongoClient' = "unprobed"
    /\ req' = [req EXCEPT ![r] = [req[r] EXCEPT !.opened = TRUE, !.pc = "c:ping"]]
    /\ UNCHANGED <<session, pymongo, mongoUp, mongoBooks, sqlBooks, mongoLoans, sqlLoans, mongoUsers, mongoAuthors, mongoRatings, sqlRatings>>

\* "self._client.admin.command('ping')" on the client the attribute holds
\* now; on PyMongoError "self._client = None" and MongoUnavailableError
_require_client_ping(r) ==
    /\ req[r].pc = "c:ping"
    /\ IF mongoClient = "none"
       THEN /\ req' = [req EXCEPT ![r] =
                  Finish(Called(r, "list_books", Out("attribute_error", TRUE, {})),
                         "attribute_error")]
            /\ UNCHANGED <<session, mongoClient>>
       ELSE IF mongoUp
       THEN /\ mongoClient' = "open"
            /\ req' = [req EXCEPT ![r] = [req[r] EXCEPT !.pc = "c:return"]]
            /\ UNCHANGED session
       ELSE /\ mongoClient' = "none"
            /\ MongoRaised(r, Called(r, "list_books", Out("unavailable", TRUE, {})), "unavailable")
    /\ UNCHANGED <<pymongo, mongoUp, mongoBooks, sqlBooks, mongoLoans, sqlLoans, mongoUsers, mongoAuthors, mongoRatings, sqlRatings>>

\* "return self._client"
_require_client_return(r) ==
    /\ req[r].pc = "c:return"
    /\ req' = [req EXCEPT ![r] = [req[r] EXCEPT !.handle = mongoClient, !.pc = "c:query"]]
    /\ UNCHANGED <<session, pymongo, mongoUp, mongoClient, mongoBooks, sqlBooks, mongoLoans, sqlLoans, mongoUsers, mongoAuthors, mongoRatings, sqlRatings>>

\* list_books on the handle returned: self.db.books.find({}) and the rest
list_books_query(r) ==
    /\ req[r].pc = "c:query"
    /\ LET res == IF req[r].handle = "none" THEN "type_error"
                  ELSE IF mongoUp THEN "ok" ELSE "driver_error"
           q == Called(r, "list_books", Out(res, TRUE, {}))
       IN  req' = [req EXCEPT ![r] =
             IF res = "ok"
             THEN Finish([q EXCEPT !.books =
                             {BookVal("mongo", b, MongoHasActive(b),
                                      AuthorOrUnknown(mongoBooks[b].author)) : b \in MongoBooks}],
                         "render")
             ELSE Finish(q, res)]
    /\ UNCHANGED <<session, pymongo, mongoUp, mongoClient, mongoBooks, sqlBooks, mongoLoans, sqlLoans, mongoUsers, mongoAuthors, mongoRatings, sqlRatings>>

----------------------------------------------------------------------------
\* views.py book_detail

book_detail_mongo(r) ==
    /\ req[r].pc = "m:get_book_detail"
    /\ LET out == get_book_detail(req[r].id)
           q == Called(r, "get_book_detail", out)
       IN  /\ Connect(out)
           /\ IF out.res = "ok"
              THEN /\ req' = [req EXCEPT ![r] =
                         Finish([q EXCEPT !.books = out.val], "render")]
                   /\ UNCHANGED session
              ELSE MongoRaised(r, q, out.res)
    /\ UNCHANGED <<pymongo, mongoUp, mongoBooks, sqlBooks, mongoLoans, sqlLoans, mongoUsers, mongoAuthors, mongoRatings, sqlRatings>>

book_detail_sql(r) ==
    /\ req[r].pc = "s:book_detail"
    /\ LET t == req[r].id
           q == SqlRun(r)
       IN  req' = [req EXCEPT ![r] =
             IF ~SqlIdOk(t) \/ _parse_sql_id(t) \notin SqlBooks
             THEN Finish(q, "http404")
             ELSE Finish([q EXCEPT !.books =
                             {BookVal("sql", _parse_sql_id(t), is_loaned(_parse_sql_id(t)),
                                      SqlAuthor(_parse_sql_id(t)))}],
                         "render")]
    /\ UNCHANGED <<session, pymongo, mongoUp, mongoClient, mongoBooks, sqlBooks, mongoLoans, sqlLoans, mongoUsers, mongoAuthors, mongoRatings, sqlRatings>>

----------------------------------------------------------------------------
\* views.py book_edit

book_edit_get_book(r) ==
    /\ req[r].pc = "m:edit_get_book"
    /\ LET out == get_book(req[r].id)
           q == Called(r, "get_book", out)
       IN  /\ Connect(out)
           /\ IF out.res = "ok"
              THEN /\ req' = [req EXCEPT ![r] =
                         [q EXCEPT !.books = out.val,
                                   !.book = (CHOOSE b \in out.val : TRUE).n,
                                   !.pc = "m:author_choices"]]
                   /\ UNCHANGED session
              ELSE MongoRaised(r, q, out.res)
    /\ UNCHANGED <<pymongo, mongoUp, mongoBooks, sqlBooks, mongoLoans, sqlLoans, mongoUsers, mongoAuthors, mongoRatings, sqlRatings>>

\* author_choices(), MongoBookForm(...), form.is_valid()
book_edit_author_choices(r) ==
    /\ req[r].pc = "m:author_choices"
    /\ LET out == author_choices
           q == Called(r, "author_choices", out)
           errs == MongoBookFormErrors(req[r].form, out.val)
       IN  /\ Connect(out)
           /\ IF out.res = "ok"
              THEN /\ req' = [req EXCEPT ![r] =
                         IF req[r].method # "POST" THEN Finish(q, "render")
                         ELSE IF errs # {} THEN Finish([q EXCEPT !.errors = errs], "render")
                         ELSE [q EXCEPT !.pc = "m:update_book"]]
                   /\ UNCHANGED session
              ELSE MongoRaised(r, q, out.res)
    /\ UNCHANGED <<pymongo, mongoUp, mongoBooks, sqlBooks, mongoLoans, sqlLoans, mongoUsers, mongoAuthors, mongoRatings, sqlRatings>>

book_edit_update(r) ==
    /\ req[r].pc = "m:update_book"
    /\ LET out == Out(DbOutcome, TRUE, {})
           q == Called(r, "update_book", out)
       IN  /\ Connect(out)
           /\ IF out.res = "ok"
              THEN /\ mongoBooks' = update_book(req[r].book, req[r].form)
                   /\ req' = [req EXCEPT ![r] =
                         Finish([q EXCEPT !.writes = Append(@, Write("mongo", "books", req[r].book)),
                                          !.notices = Append(@, Notice("success", "book_saved"))],
                                "redirect")]
                   /\ UNCHANGED session
              ELSE /\ MongoRaised(r, q, out.res)
                   /\ UNCHANGED mongoBooks
    /\ UNCHANGED <<pymongo, mongoUp, sqlBooks, mongoLoans, sqlLoans, mongoUsers, mongoAuthors, mongoRatings, sqlRatings>>

\* get_object_or_404(Book, ...), BookForm(...).is_valid()
book_edit_sql(r) ==
    /\ req[r].pc = "s:book_edit"
    /\ LET t == req[r].id
           b == _parse_sql_id(t)
           q == SqlRun(r)
           errs == BookFormErrors(req[r].form)
       IN  req' = [req EXCEPT ![r] =
             IF ~SqlIdOk(t) \/ b \notin SqlBooks THEN Finish(q, "http404")
             ELSE IF req[r].method # "POST" THEN Finish([q EXCEPT !.book = b], "render")
             ELSE IF errs # {} THEN Finish([q EXCEPT !.book = b, !.errors = errs], "render")
             ELSE [q EXCEPT !.book = b, !.pc = "s:book_save"]]
    /\ UNCHANGED <<session, pymongo, mongoUp, mongoClient, mongoBooks, sqlBooks, mongoLoans, sqlLoans, mongoUsers, mongoAuthors, mongoRatings, sqlRatings>>

\* form.save()
book_edit_save(r) ==
    /\ req[r].pc = "s:book_save"
    /\ sqlBooks' = [sqlBooks EXCEPT ![req[r].book] =
          Book(req[r].form.title, req[r].form.year, _parse_sql_id(req[r].form.author))]
    /\ req' = [req EXCEPT ![r] =
          Finish([req[r] EXCEPT !.writes = Append(@, Write("sql", "books", req[r].book)),
                                !.notices = Append(@, Notice("success", "book_saved"))],
                 "redirect")]
    /\ UNCHANGED <<session, pymongo, mongoUp, mongoClient, mongoBooks, mongoLoans, sqlLoans, mongoUsers, mongoAuthors, mongoRatings, sqlRatings>>

----------------------------------------------------------------------------
\* views.py user_loans

user_loans_get_user(r) ==
    /\ req[r].pc = "m:get_user"
    /\ LET out == get_user(req[r].id)
           q == Called(r, "get_user", out)
       IN  /\ Connect(out)
           /\ IF out.res = "ok"
              THEN /\ req' = [req EXCEPT ![r] = [q EXCEPT !.pc = "m:list_user_loans"]]
                   /\ UNCHANGED session
              ELSE MongoRaised(r, q, out.res)
    /\ UNCHANGED <<pymongo, mongoUp, mongoBooks, sqlBooks, mongoLoans, sqlLoans, mongoUsers, mongoAuthors, mongoRatings, sqlRatings>>

user_loans_list(r) ==
    /\ req[r].pc = "m:list_user_loans"
    /\ LET out == list_user_loans(req[r].id)
           q == Called(r, "list_user_loans", out)
       IN  /\ Connect(out)
           /\ IF out.res = "ok"
              THEN /\ req' = [req EXCEPT ![r] =
                         Finish([q EXCEPT !.books = out.val], "render")]
                   /\ UNCHANGED session
              ELSE MongoRaised(r, q, out.res)
    /\ UNCHANGED <<pymongo, mongoUp, mongoBooks, sqlBooks, mongoLoans, sqlLoans, mongoUsers, mongoAuthors, mongoRatings, sqlRatings>>

user_loans_sql(r) ==
    /\ req[r].pc = "s:user_loans"
    /\ LET t == req[r].id
           q == SqlRun(r)
           mine == {i \in 1..Len(sqlLoans) : sqlLoans[i].user = _parse_sql_id(t)}
       IN  req' = [req EXCEPT ![r] =
             IF ~SqlIdOk(t) \/ _parse_sql_id(t) \notin SqlUsers
             THEN Finish(q, "http404")
             ELSE Finish([q EXCEPT !.books =
                             {BookVal("sql", sqlLoans[i].book, is_loaned(sqlLoans[i].book),
                                      SqlAuthor(sqlLoans[i].book)) :
                                 i \in mine}],
                         "render")]
    /\ UNCHANGED <<session, pymongo, mongoUp, mongoClient, mongoBooks, sqlBooks, mongoLoans, sqlLoans, mongoUsers, mongoAuthors, mongoRatings, sqlRatings>>

----------------------------------------------------------------------------
\* views.py loan_create, Mongo branch

loan_create_get_book(r) ==
    /\ req[r].pc = "m:get_book"
    /\ LET out == get_book(req[r].id)
           q == Called(r, "get_book", out)
           warn == req[r].method # "POST" /\ (CHOOSE b \in out.val : TRUE).loaned
       IN  /\ Connect(out)
           /\ IF out.res = "ok"
              THEN /\ req' = [req EXCEPT ![r] =
                         [q EXCEPT !.books = out.val,
                                   !.book = (CHOOSE b \in out.val : TRUE).n,
                                   !.notices = IF warn
                                               THEN Append(@, Notice("warning", "already_loaned"))
                                               ELSE @,
                                   !.pc = "m:user_choices"]]
                   /\ UNCHANGED session
              ELSE MongoRaised(r, q, out.res)
    /\ UNCHANGED <<pymongo, mongoUp, mongoBooks, sqlBooks, mongoLoans, sqlLoans, mongoUsers, mongoAuthors, mongoRatings, sqlRatings>>

\* user_choices(), MongoLoanForm(...), form.is_valid()
loan_create_user_choices(r) ==
    /\ req[r].pc = "m:user_choices"
    /\ LET out == user_choices
           q == Called(r, "user_choices", out)
           errs == MongoLoanFormErrors(req[r].form, out.val)
       IN  /\ Connect(out)
           /\ IF out.res = "ok"
              THEN /\ req' = [req EXCEPT ![r] =
                         IF req[r].method # "POST" THEN Finish(q, "render")
                         ELSE IF errs # {} THEN Finish([q EXCEPT !.errors = errs], "render")
                         ELSE [q EXCEPT !.pc = "m:create_loan"]]
                   /\ UNCHANGED session
              ELSE MongoRaised(r, q, out.res)
    /\ UNCHANGED <<pymongo, mongoUp, mongoBooks, sqlBooks, mongoLoans, sqlLoans, mongoUsers, mongoAuthors, mongoRatings, sqlRatings>>

\* mongo_repository.create_loan: find_one for an unreturned loan; ValueError
\* becomes a non-field form error
loan_create_find(r) ==
    /\ req[r].pc = "m:create_loan"
    /\ LET out == create_loan_find(req[r].book)
           q == Called(r, "create_loan", out)
       IN  /\ Connect(out)
           /\ IF out.res = "ok"
              THEN /\ req' = [req EXCEPT ![r] = [req[r] EXCEPT !.pc = "m:insert_one"]]
                   /\ UNCHANGED session
              ELSE IF out.res = "value_error"
              THEN /\ req' = [req EXCEPT ![r] =
                         Finish([q EXCEPT !.errors = {"conflict"}], "render")]
                   /\ UNCHANGED session
              ELSE MongoRaised(r, q, out.res)
    /\ UNCHANGED <<pymongo, mongoUp, mongoBooks, sqlBooks, mongoLoans, sqlLoans, mongoUsers, mongoAuthors, mongoRatings, sqlRatings>>

\* mongo_repository.create_loan: insert_one, then the success message and redirect
loan_create_insert(r) ==
    /\ req[r].pc = "m:insert_one"
    /\ LET out == Out(DbOutcome, TRUE, {})
           q == Called(r, "create_loan", out)
       IN  /\ Connect(out)
           /\ IF out.res = "ok"
              THEN /\ mongoLoans' = create_loan_insert(req[r].book, req[r].form)
                   /\ req' = [req EXCEPT ![r] =
                         Finish([q EXCEPT !.writes = Append(@, Write("mongo", "loans", Len(mongoLoans) + 1)),
                                          !.notices = Append(@, Notice("success", "loan_created"))],
                                "redirect")]
                   /\ UNCHANGED session
              ELSE /\ MongoRaised(r, q, out.res)
                   /\ UNCHANGED mongoLoans
    /\ UNCHANGED <<pymongo, mongoUp, mongoBooks, sqlBooks, sqlLoans, mongoUsers, mongoAuthors, mongoRatings, sqlRatings>>

----------------------------------------------------------------------------
\* views.py loan_create, SQL branch

\* get_object_or_404(Book, ...), the warning, LoanForm(...).is_valid()
loan_create_sql(r) ==
    /\ req[r].pc = "s:loan_create"
    /\ LET t == req[r].id
           b == _parse_sql_id(t)
           q == SqlRun(r)
           errs == LoanFormErrors(req[r].form, b)
           warned == [q EXCEPT !.notices = IF is_loaned(b)
                                           THEN Append(@, Notice("warning", "already_loaned"))
                                           ELSE @]
       IN  req' = [req EXCEPT ![r] =
             IF ~SqlIdOk(t) \/ b \notin SqlBooks THEN Finish(q, "http404")
             ELSE IF req[r].method # "POST"
             THEN Finish([warned EXCEPT !.book = b], "render")
             ELSE IF errs # {} THEN Finish([q EXCEPT !.book = b, !.errors = errs], "render")
             ELSE [q EXCEPT !.book = b,
                            !.row = Loan(b, _parse_sql_id(req[r].form.user),
                                         req[r].form.start_date, req[r].form.end_date, FALSE),
                            !.pc = "s:full_clean"]]
    /\ UNCHANGED <<session, pymongo, mongoUp, mongoClient, mongoBooks, sqlBooks, mongoLoans, sqlLoans, mongoUsers, mongoAuthors, mongoRatings, sqlRatings>>

\* LoanForm.save: loan.full_clean(); its ValidationError is not caught
loan_create_full_clean(r) ==
    /\ req[r].pc = "s:full_clean"
    /\ req' = [req EXCEPT ![r] =
          IF LoanClean(req[r].row, 0) # {}
          THEN Finish([req[r] EXCEPT !.errors = LoanClean(req[r].row, 0)], "validation_error")
          ELSE [req[r] EXCEPT !.pc = "s:save"]]
    /\ UNCHANGED <<session, pymongo, mongoUp, mongoClient, mongoBooks, sqlBooks, mongoLoans, sqlLoans, mongoUsers, mongoAuthors, mongoRatings, sqlRatings>>

\* LoanForm.save: loan.save(), then the success message and redirect
loan_create_save(r) ==
    /\ req[r].pc = "s:save"
    /\ sqlLoans' = Append(sqlLoans, req[r].row)
    /\ req' = [req EXCEPT ![r] =
          Finish([req[r] EXCEPT !.writes = Append(@, Write("sql", "loans", Len(sqlLoans) + 1)),
                                !.notices = Append(@, Notice("success", "loan_created"))],
                 "redirect")]
    /\ UNCHANGED <<session, pymongo, mongoUp, mongoClient, mongoBooks, sqlBooks, mongoLoans, mongoUsers, mongoAuthors, mongoRatings, sqlRatings>>

----------------------------------------------------------------------------
\* views.py loan_return

\* LoanReturnForm: confirm is a required BooleanField
ReturnConfirmed(q) == q.method = "POST" /\ q.form.confirm

\* Mutant of AlreadyReturned: the early redirect is missing
AlreadyReturnedIgnored(row) == FALSE

\* "if loan.returned: return redirect(...)" in both branches
AlreadyReturned(row) == row.returned

loan_return_get_loan(r) ==
    /\ req[r].pc = "m:get_loan"
    /\ LET out == get_loan(req[r].id)
           q == Called(r, "get_loan", out)
           n == _object_id(req[r].id)
       IN  /\ Connect(out)
           /\ IF out.res = "ok"
              THEN /\ req' = [req EXCEPT ![r] =
                         LET q2 == [q EXCEPT !.books = out.val, !.loan = n,
                                             !.row = mongoLoans[n]]
                         IN  IF AlreadyReturned(mongoLoans[n]) THEN Finish(q2, "redirect")
                             ELSE IF ReturnConfirmed(q) THEN [q2 EXCEPT !.pc = "m:mark_loan_returned"]
                             ELSE Finish(q2, "render")]
                   /\ UNCHANGED session
              ELSE MongoRaised(r, q, out.res)
    /\ UNCHANGED <<pymongo, mongoUp, mongoBooks, sqlBooks, mongoLoans, sqlLoans, mongoUsers, mongoAuthors, mongoRatings, sqlRatings>>

loan_return_mark(r) ==
    /\ req[r].pc = "m:mark_loan_returned"
    /\ LET out == Out(DbOutcome, TRUE, {})
           q == Called(r, "mark_loan_returned", out)
       IN  /\ Connect(out)
           /\ IF out.res = "ok"
              THEN /\ mongoLoans' = mark_loan_returned(req[r].loan)
                   /\ req' = [req EXCEPT ![r] =
                         Finish([q EXCEPT !.writes = Append(@, Write("mongo", "loans", req[r].loan)),
                                          !.notices = Append(@, Notice("success", "loan_returned"))],
                                "redirect")]
                   /\ UNCHANGED session
              ELSE /\ MongoRaised(r, q, out.res)
                   /\ UNCHANGED mongoLoans
    /\ UNCHANGED <<pymongo, mongoUp, mongoBooks, sqlBooks, sqlLoans, mongoUsers, mongoAuthors, mongoRatings, sqlRatings>>

\* get_object_or_404(Loan, ...), the early redirect, LoanReturnForm
loan_return_sql(r) ==
    /\ req[r].pc = "s:loan_return"
    /\ LET t == req[r].id
           n == _parse_sql_id(t)
           q == SqlRun(r)
       IN  req' = [req EXCEPT ![r] =
             IF ~SqlIdOk(t) \/ n \notin 1..Len(sqlLoans) THEN Finish(q, "http404")
             ELSE LET q2 == [q EXCEPT !.loan = n, !.row = sqlLoans[n]]
                  IN  IF AlreadyReturned(sqlLoans[n]) THEN Finish(q2, "redirect")
                      ELSE IF ReturnConfirmed(q) THEN [q2 EXCEPT !.pc = "s:loan_save"]
                      ELSE Finish(q2, "render")]
    /\ UNCHANGED <<session, pymongo, mongoUp, mongoClient, mongoBooks, sqlBooks, mongoLoans, sqlLoans, mongoUsers, mongoAuthors, mongoRatings, sqlRatings>>

\* loan.returned = True; loan.full_clean(); loan.save() writes the whole row
loan_return_save(r) ==
    /\ req[r].pc = "s:loan_save"
    /\ LET row == [req[r].row EXCEPT !.returned = TRUE]
           errs == LoanClean(row, req[r].loan)
       IN  IF errs # {}
           THEN /\ req' = [req EXCEPT ![r] = Finish([req[r] EXCEPT !.errors = errs], "validation_error")]
                /\ UNCHANGED sqlLoans
           ELSE /\ sqlLoans' = [sqlLoans EXCEPT ![req[r].loan] = row]
                /\ req' = [req EXCEPT ![r] =
                      Finish([req[r] EXCEPT !.row = row,
                                            !.writes = Append(@, Write("sql", "loans", req[r].loan)),
                                            !.notices = Append(@, Notice("success", "loan_returned"))],
                             "redirect")]
    /\ UNCHANGED <<session, pymongo, mongoUp, mongoClient, mongoBooks, sqlBooks, mongoLoans, mongoUsers, mongoAuthors, mongoRatings, sqlRatings>>

----------------------------------------------------------------------------
\* views.py book_create

\* author_choices(), MongoBookForm(...), form.is_valid()
book_create_author_choices(r) ==
    /\ req[r].pc = "m:create_author_choices"
    /\ LET out == author_choices
           q == Called(r, "author_choices", out)
           errs == MongoBookFormErrors(req[r].form, out.val)
       IN  /\ Connect(out)
           /\ IF out.res = "ok"
              THEN /\ req' = [req EXCEPT ![r] =
                         IF req[r].method # "POST" THEN Finish(q, "render")
                         ELSE IF errs # {} THEN Finish([q EXCEPT !.errors = errs], "render")
                         ELSE [q EXCEPT !.pc = "m:create_book"]]
                   /\ UNCHANGED session
              ELSE MongoRaised(r, q, out.res)
    /\ UNCHANGED <<pymongo, mongoUp, mongoBooks, sqlBooks, mongoLoans, sqlLoans, mongoUsers, mongoAuthors, mongoRatings, sqlRatings>>

\* Mutant of book_create_insert: after insert_one the handler does not return
\* but goes on to its SQL branch
book_create_insert_fallthrough(r) ==
    /\ req[r].pc = "m:create_book"
    /\ LET out == Out(DbOutcome, TRUE, {})
           q == Called(r, "create_book", out)
       IN  /\ Connect(out)
           /\ IF out.res = "ok"
              THEN /\ mongoBooks' = create_book(req[r].form)
                   /\ req' = [req EXCEPT ![r] =
                         [q EXCEPT !.writes = Append(@, Write("mongo", "books", Len(mongoBooks) + 1)),
                                   !.book = Len(mongoBooks) + 1,
                                   !.notices = Append(@, Notice("success", "book_created")),
                                   !.pc = SqlEntry(q.op)]]
                   /\ UNCHANGED session
              ELSE /\ MongoRaised(r, q, out.res)
                   /\ UNCHANGED mongoBooks
    /\ UNCHANGED <<pymongo, mongoUp, sqlBooks, mongoLoans, sqlLoans, mongoUsers, mongoAuthors, mongoRatings, sqlRatings>>

\* mongo_repository.create_book, then the success message and redirect
book_create_insert(r) ==
    /\ req[r].pc = "m:create_book"
    /\ LET out == Out(DbOutcome, TRUE, {})
           q == Called(r, "create_book", out)
       IN  /\ Connect(out)
           /\ IF out.res = "ok"
              THEN /\ mongoBooks' = create_book(req[r].form)
                   /\ req' = [req EXCEPT ![r] =
                         Finish([q EXCEPT !.writes = Append(@, Write("mongo", "books", Len(mongoBooks) + 1)),
                                          !.book = Len(mongoBooks) + 1,
                                          !.notices = Append(@, Notice("success", "book_created"))],
                                "redirect")]
                   /\ UNCHANGED session
              ELSE /\ MongoRaised(r, q, out.res)
                   /\ UNCHANGED mongoBooks
    /\ UNCHANGED <<pymongo, mongoUp, sqlBooks, mongoLoans, sqlLoans, mongoUsers, mongoAuthors, mongoRatings, sqlRatings>>

\* BookForm(request.POST).is_valid()
book_create_sql(r) ==
    /\ req[r].pc = "s:book_create"
    /\ LET q == SqlRun(r)
           errs == BookFormErrors(req[r].form)
       IN  req' = [req EXCEPT ![r] =
             IF req[r].method # "POST" THEN Finish(q, "render")
             ELSE IF errs # {} THEN Finish([q EXCEPT !.errors = errs], "render")
             ELSE [q EXCEPT !.pc = "s:book_insert"]]
    /\ UNCHANGED <<session, pymongo, mongoUp, mongoClient, mongoBooks, sqlBooks, mongoLoans, sqlLoans, mongoUsers, mongoAuthors, mongoRatings, sqlRatings>>

\* form.save(), then the success message and redirect
book_create_save(r) ==
    /\ req[r].pc = "s:book_insert"
    /\ sqlBooks' = Append(sqlBooks,
          Book(req[r].form.title, req[r].form.year, _parse_sql_id(req[r].form.author)))
    /\ req' = [req EXCEPT ![r] =
          Finish([req[r] EXCEPT !.writes = Append(@, Write("sql", "books", Len(sqlBooks) + 1)),
                                !.book = Len(sqlBooks) + 1,
                                !.notices = Append(@, Notice("success", "book_created"))],
                 "redirect")]
    /\ UNCHANGED <<session, pymongo, mongoUp, mongoClient, mongoBooks, mongoLoans, sqlLoans, mongoUsers, mongoAuthors, mongoRatings, sqlRatings>>

----------------------------------------------------------------------------
\* views.py rating_create

\* MongoRatingForm(...).is_valid(), then mongo_repository.create_rating: the
\* form is validated before the repository is touched
rating_create_mongo(r) ==
    /\ req[r].pc = "m:rating_create"
    /\ LET errs == MongoRatingFormErrors(req[r].form)
           out == Out(DbOutcome, TRUE, {})
           q == Called(r, "create_rating", out)
       IN  IF req[r].method # "POST" \/ errs # {}
           THEN /\ req' = [req EXCEPT ![r] =
                      Finish([req[r] EXCEPT !.errors = IF req[r].method = "POST" THEN errs ELSE {}],
                             "render")]
                /\ UNCHANGED <<session, mongoClient, mongoRatings>>
           ELSE /\ Connect(out)
                /\ IF out.res = "ok"
                   THEN /\ mongoRatings' = create_rating(req[r].form)
                        /\ req' = [req EXCEPT ![r] =
                              Finish([q EXCEPT !.writes = Append(@, Write("mongo", "ratings", Len(mongoRatings) + 1)),
                                               !.notices = Append(@, Notice("success", "rating_created"))],
                                     "redirect")]
                        /\ UNCHANGED session
                   ELSE /\ MongoRaised(r, q, out.res)
                        /\ UNCHANGED mongoRatings
    /\ UNCHANGED <<pymongo, mongoUp, mongoBooks, sqlBooks, mongoLoans, sqlLoans, mongoUsers, mongoAuthors, sqlRatings>>

\* RatingForm(request.POST).is_valid()
rating_create_sql(r) ==
    /\ req[r].pc = "s:rating_create"
    /\ LET q == SqlRun(r)
           errs == RatingFormErrors(req[r].form)
       IN  req' = [req EXCEPT ![r] =
             IF req[r].method # "POST" THEN Finish(q, "render")
             ELSE IF errs # {} THEN Finish([q EXCEPT !.errors = errs], "render")
             ELSE [q EXCEPT !.pc = "s:rating_save"]]
    /\ UNCHANGED <<session, pymongo, mongoUp, mongoClient, mongoBooks, sqlBooks, mongoLoans, sqlLoans, mongoUsers, mongoAuthors, mongoRatings, sqlRatings>>

\* form.save(), then the success message and redirect
rating_create_save(r) ==
    /\ req[r].pc = "s:rating_save"
    /\ sqlRatings' = Append(sqlRatings, Rating(req[r].form.name, req[r].form.rating))
    /\ req' = [req EXCEPT ![r] =
          Finish([req[r] EXCEPT !.writes = Append(@, Write("sql", "ratings", Len(sqlRatings) + 1)),
                                !.notices = Append(@, Notice("success", "rating_created"))],
                 "redirect")]
    /\ UNCHANGED <<session, pymongo, mongoUp, mongoClient, mongoBooks, sqlBooks, mongoLoans, sqlLoans, mongoUsers, mongoAuthors, mongoRatings>>

----------------------------------------------------------------------------

\* The MongoDB server stops or starts answering.
MongoServerToggle ==
    /\ mongoUp' = ~mongoUp
    /\ UNCHANGED <<session, pymongo, mongoClient, mongoBooks, sqlBooks, mongoLoans, sqlLoans, req, mongoUsers, mongoAuthors, mongoRatings, sqlRatings>>

\* A document of library_users or of authors is deleted outside the
\* application; MongoDB keeps the documents that refer to it.
MongoUserDeleted ==
    /\ \E u \in mongoUsers : mongoUsers' = mongoUsers \ {u}
    /\ UNCHANGED <<session, pymongo, mongoUp, mongoClient, mongoBooks, sqlBooks, mongoLoans, sqlLoans, mongoAuthors, mongoRatings, sqlRatings, req>>

MongoAuthorDeleted ==
    /\ \E a \in mongoAuthors : mongoAuthors' = mongoAuthors \ {a}
    /\ UNCHANGED <<session, pymongo, mongoUp, mongoClient, mongoBooks, sqlBooks, mongoLoans, sqlLoans, mongoUsers, mongoRatings, sqlRatings, req>>

\* The application process starts again: mongo_repository is a new
\* MongoDataSource, without client; sessions and stores are kept.
Restart ==
    /\ \A r \in Workers : Free(r)
    /\ mongoClient = "open"
    /\ mongoClient' = "none"
    /\ UNCHANGED <<session, pymongo, mongoUp, mongoBooks, sqlBooks, mongoLoans, sqlLoans, mongoUsers, mongoAuthors, mongoRatings, sqlRatings, req>>

TypeOK ==
    /\ session \in [Sessions -> {"none", "sql", "mongo"}]
    /\ pymongo \in BOOLEAN
    /\ mongoUp \in BOOLEAN
    /\ mongoClient \in {"none", "unprobed", "open"}
    /\ Len(mongoLoans) + Len(sqlLoans) <= MaxLoans
    /\ Len(mongoBooks) + Len(sqlBooks) <= MaxBooks
    /\ Len(mongoRatings) + Len(sqlRatings) <= MaxRatings
    /\ mongoUsers \subseteq MongoUsers
    /\ mongoAuthors \subseteq MongoAuthors

Init ==
    /\ session = [s \in Sessions |-> "none"]
    /\ pymongo \in BOOLEAN
    /\ mongoUp \in BOOLEAN
    /\ mongoClient = "none"
    /\ mongoBooks = <<Book("t0", 1, 1)>>
    /\ sqlBooks = <<Book("t0", 1, 1)>>
    /\ mongoLoans = <<>>
    /\ sqlLoans = <<>>
    /\ mongoUsers = MongoUsers
    /\ mongoAuthors = MongoAuthors
    /\ mongoRatings = <<>>
    /\ sqlRatings = <<>>
    /\ req = [r \in Workers |-> IdleReq]

\* The steps of the loan handlers
LoanStep(r) ==
    \/ loan_create_get_book(r)
    \/ loan_create_user_choices(r)
    \/ loan_create_find(r)
    \/ loan_create_insert(r)
    \/ loan_create_sql(r)
    \/ loan_create_full_clean(r)
    \/ loan_create_save(r)
    \/ loan_return_get_loan(r)
    \/ loan_return_mark(r)
    \/ loan_return_sql(r)
    \/ loan_return_save(r)

Step(r) ==
    \/ Begin(r)
    \/ End(r)
    \/ change_data_source(r)
    \/ book_list_mongo(r)
    \/ book_list_sql(r)
    \/ book_detail_mongo(r)
    \/ book_detail_sql(r)
    \/ book_edit_get_book(r)
    \/ book_edit_author_choices(r)
    \/ book_edit_update(r)
    \/ book_edit_sql(r)
    \/ book_edit_save(r)
    \/ user_loans_get_user(r)
    \/ user_loans_list(r)
    \/ user_loans_sql(r)
    \/ LoanStep(r)

\* One worker: requests are handled one after the other
Next == MongoServerToggle \/ Step("w1")

Spec == Init /\ [][Next]_vars

\* The same, with documents of users and authors deleted between the steps
RefNext == Next \/ MongoUserDeleted \/ MongoAuthorDeleted

RefSpec == Init /\ [][RefNext]_vars

\* The handlers that write, and their submissions
WriteOps == {"book_create", "book_edit", "loan_create", "loan_return", "rating_create"}
WriteInputs(op) ==
    {in \in Inputs(op) :
        /\ in[1] = "POST"
        /\ in[2] # BadTok
        /\ in[3].year >= 0
        /\ op = "loan_create" => in[3].start_date < in[3].end_date}

BookStep(r) ==
    \/ book_edit_get_book(r)
    \/ book_edit_author_choices(r)
    \/ book_edit_update(r)
    \/ book_edit_sql(r)
    \/ book_edit_save(r)
    \/ book_create_author_choices(r)
    \/ book_create_insert(r)
    \/ book_create_sql(r)
    \/ book_create_save(r)

RatingStep(r) ==
    \/ rating_create_mongo(r)
    \/ rating_create_sql(r)
    \/ rating_create_save(r)

\* One worker handles the submissions of the writing handlers
WriteNext ==
    \/ MongoServerToggle
    \/ Restart
    \/ change_data_source("w1")
    \/ \E op \in WriteOps : BeginWith("w1", op, WriteInputs(op))
    \/ BookStep("w1")
    \/ LoanStep("w1")
    \/ RatingStep("w1")
    \/ End("w1")

WriteSpec == Init /\ [][WriteNext]_vars

\* Two workers list the books at the same time; the server does not change
\* its state
ConnNext ==
    \E r \in Workers :
        \/ change_data_source(r)
        \/ BeginWith(r, "book_list", Inputs("book_list"))
        \/ _require_client_check(r)
        \/ _require_client_assign(r)
        \/ _require_client_ping(r)
        \/ _require_client_return(r)
        \/ list_books_query(r)
        \/ book_list_sql(r)
        \/ End(r)

ConnSpec == Init /\ [][ConnNext]_vars

\* Two workers handle loan requests at the same time
RaceNext ==
    \/ MongoServerToggle
    \/ \E r \in Workers :
          \/ change_data_source(r)
          \/ BeginWith(r, "loan_create", RaceInputs("loan_create"))
          \/ BeginWith(r, "loan_return", RaceInputs("loan_return"))
          \/ LoanStep(r)
          \/ End(r)

RaceSpec == Init /\ [][RaceNext]_vars

----------------------------------------------------------------------------
\* Vocabulary of the properties

LoansOf(be) == IF be = DATA_SOURCE_MONGO THEN mongoLoans ELSE sqlLoans

ActiveLoans(loans, b) == {i \in 1..Len(loans) : loans[i].book = b /\ ~loans[i].returned}

AllBooks == MongoBooks \cup SqlBooks

\* Request r is answered by this step
Completes(r) == req[r].pc # "done" /\ req'[r].pc = "done"

\* The request was aborted by an error of the driver, not answered by the handler
BackendFailed(q) == q.outcome \in {"driver_error", "runtime_error"}

\* The submitted loan fields pass the field validation of backend be
FieldsValid(be, data) ==
    /\ data.start_date <= data.end_date
    /\ IF be = DATA_SOURCE_MONGO
       THEN ObjectIdOk(data.user) /\ _object_id(data.user) \in mongoUsers
       ELSE SqlIdOk(data.user) /\ _parse_sql_id(data.user) \in SqlUsers

\* This step is a fallback of request r
FallsBack(r) ==
    /\ Len(req'[r].calls) = Len(req[r].calls) + 1
    /\ req'[r].calls[Len(req'[r].calls)].res = "unavailable"

HasUnavailable(q) == \E i \in 1..Len(q.calls) : q.calls[i].res = "unavailable"

----------------------------------------------------------------------------
\* C1: in every reachable state, and in both backends, a book has at most one
\* loan with returned = false, also when two loan creations for the same book
\* are interleaved.
C1_AtMostOneActiveLoan ==
    \A b \in AllBooks :
        /\ Cardinality(ActiveLoans(mongoLoans, b)) <= 1
        /\ Cardinality(ActiveLoans(sqlLoans, b)) <= 1

----------------------------------------------------------------------------
\* C2: with requests handled one after the other, a loan creation whose fields
\* are valid, for a book that has an unreturned loan in the backend serving
\* the request, ends with the conflict error on the form and leaves the loans
\* of both backends unchanged.
C2_Case(r) ==
    /\ Completes(r)
    /\ req'[r].op = "loan_create"
    /\ req'[r].method = "POST"
    /\ req'[r].book # 0
    /\ ~BackendFailed(req'[r])
    /\ FieldsValid(req'[r].ds, req'[r].form)
    /\ ActiveLoans(LoansOf(req'[r].ds), req'[r].book) # {}

----------------------------------------------------------------------------
\* C3: with requests handled one after the other and for either backend:
\* while a book has an unreturned loan a further creation is refused with the
\* conflict error; a confirmed return of that loan leaves the book without an
\* unreturned loan; and a creation with valid fields for a book without an
\* unreturned loan succeeds and stores one unreturned loan for the book.
C3_CreateCase(r) ==
    /\ Completes(r)
    /\ req'[r].op = "loan_create"
    /\ req'[r].method = "POST"
    /\ req'[r].book # 0
    /\ ~BackendFailed(req'[r])
    /\ FieldsValid(req'[r].ds, req'[r].form)

C3_ReturnCase(r) ==
    /\ Completes(r)
    /\ req'[r].op = "loan_return"
    /\ req'[r].loan # 0
    /\ ReturnConfirmed(req'[r])
    /\ ~BackendFailed(req'[r])
    /\ ~LoansOf(req'[r].ds)[req'[r].loan].returned

LoansNext(be) == IF be = DATA_SOURCE_MONGO THEN mongoLoans' ELSE sqlLoans'

----------------------------------------------------------------------------
\* C4: every Book value a repository read hands out answers is_loaned() with
\* TRUE exactly when the store of its backend holds an unreturned loan of the
\* book at the time of the read.
C4_IsLoanedMatchesStore ==
    [][\A r \in Workers :
          req'[r].books # req[r].books =>
              \A bv \in req'[r].books :
                  bv.loaned <=> (ActiveLoans(LoansNext(bv.be), bv.n) # {})]_vars

----------------------------------------------------------------------------
\* C5: returnLoan is idempotent.  A confirmed return of a loan the handler
\* reads as unreturned ends in the redirect with the loan stored as returned;
\* a return of a loan already stored as returned also ends in the redirect,
\* writes nothing, and the loan is still returned.
C5_ReturnCase(r) ==
    /\ Completes(r)
    /\ req'[r].op = "loan_return"
    /\ req'[r].loan # 0
    /\ ~BackendFailed(req'[r])

C5_ReturnIdempotent ==
    [][\A r \in Workers :
          C5_ReturnCase(r) =>
              LET be == req'[r].ds
                  n == req'[r].loan
              IN  /\ LoansOf(be)[n].returned =>
                        /\ req'[r].outcome = "redirect"
                        /\ req'[r].writes = <<>>
                        /\ mongoLoans' = mongoLoans
                        /\ sqlLoans' = sqlLoans
                  /\ (~LoansOf(be)[n].returned /\ ReturnConfirmed(req'[r])) =>
                        /\ req'[r].outcome = "redirect"
                        /\ LoansNext(be)[n].returned]_vars

\* A confirmed return of an already returned Mongo loan has been answered
C5_Witness ==
    \E r \in Workers :
        /\ req[r].pc = "done"
        /\ req[r].op = "loan_return"
        /\ req[r].ds = DATA_SOURCE_MONGO
        /\ ReturnConfirmed(req[r])
        /\ req[r].loan # 0
        /\ req[r].writes = <<>>
        /\ req[r].outcome = "redirect"
        /\ mongoLoans[req[r].loan].returned

----------------------------------------------------------------------------
\* C6: no stored loan disappears; a stored loan changes only by its returned
\* flag going from false to true, in a step of a return request for that very
\* loan; a loan stored as returned never changes again.
C6_LoanChange(be, i) ==
    LET old == LoansOf(be)[i]
        new == LoansNext(be)[i]
    IN  new # old =>
            /\ ~old.returned
            /\ new = [old EXCEPT !.returned = TRUE]
            /\ \E r \in Workers :
                  /\ req'[r].op = "loan_return"
                  /\ req'[r].ds = be
                  /\ req'[r].loan = i
                  /\ req'[r].writes # req[r].writes

C6_ReturnedIsFinal ==
    [][\A be \in DATA_SOURCE_CHOICES :
          /\ Len(LoansNext(be)) >= Len(LoansOf(be))
          /\ \A i \in 1..Len(LoansOf(be)) : C6_LoanChange(be, i)]_vars

\* A returned loan sits next to a loan created after its return
C6_Witness ==
    /\ Len(mongoLoans) = 2
    /\ mongoLoans[1].returned
    /\ ~mongoLoans[2].returned
    /\ \E r \in Workers : req[r].pc = "done" /\ req[r].op = "loan_create"
                          /\ req[r].writes # <<>>

----------------------------------------------------------------------------
\* C7: when a book_list request that started on Mongo meets
\* MongoUnavailableError, then at its end the session stores "sql", the books
\* returned are those of the SQL store, and exactly one notice, the one naming
\* the failure, is attached.
C7_BookListFallback ==
    \A r \in Workers :
        (/\ req[r].pc = "done"
         /\ req[r].op = "book_list"
         /\ req[r].start = DATA_SOURCE_MONGO
         /\ HasUnavailable(req[r])) =>
            /\ session[req[r].sess] = DATA_SOURCE_SQL
            /\ get_active_data_source(req[r].sess) = DATA_SOURCE_SQL
            /\ req[r].outcome = "render"
            /\ req[r].books = {BookVal("sql", b, is_loaned(b), SqlAuthor(b)) : b \in SqlBooks}
            /\ req[r].notices = <<Notice("error", "mongo_unavailable")>>

C7_Witness ==
    \E r \in Workers :
        /\ req[r].pc = "done"
        /\ req[r].op = "book_list"
        /\ req[r].start = DATA_SOURCE_MONGO
        /\ HasUnavailable(req[r])
        /\ req[r].books # {}

----------------------------------------------------------------------------
\* C8: within one request, Mongo repository methods are called only if the
\* request read "mongo" as its data source; after a call that raised
\* MongoUnavailableError no further Mongo method is called; the SQL branch
\* runs at most once, after every Mongo call, and in a request that started on
\* Mongo only right after the call that raised MongoUnavailableError.
C8_SingleSequentialFallback ==
    \A r \in Workers :
        LET c == req[r].calls
        IN  /\ (\E i \in 1..Len(c) : c[i].be = "mongo") => req[r].start = DATA_SOURCE_MONGO
            /\ \A i, j \in 1..Len(c) :
                  (i < j /\ c[i].res = "unavailable") => c[j].be # "mongo"
            /\ Cardinality({i \in 1..Len(c) : c[i].be = "sql"}) <= 1
            /\ \A i \in 1..Len(c) :
                  c[i].be = "sql" =>
                      /\ i = Len(c)
                      /\ req[r].start = DATA_SOURCE_MONGO =>
                            (i > 1 /\ c[i - 1].res = "unavailable")

\* The first Mongo call of a book_edit request raised MongoUnavailableError
\* and its SQL branch ran after it
C8_Witness ==
    \E r \in Workers :
        /\ req[r].op = "book_edit"
        /\ req[r].calls = <<Call("mongo", "get_book", "unavailable"),
                            Call("sql", "book_edit", "ok")>>

----------------------------------------------------------------------------
\* C9: the fallback is stored in the session: the step that falls back leaves
\* "sql" in the session; from then on the session stores "mongo" again only
\* by a change_data_source request for that session; and a request that
\* begins while the session reads "sql" takes "sql" as its data source and
\* calls no Mongo repository method.
C9_StickyFallback ==
    [][/\ \A r \in Workers :
             /\ FallsBack(r) => session'[req[r].sess] = DATA_SOURCE_SQL
             /\ (req[r].pc = "idle" /\ req'[r].pc # "idle"
                 /\ get_active_data_source(req'[r].sess) = DATA_SOURCE_SQL) =>
                    req'[r].start = DATA_SOURCE_SQL
             /\ req'[r].start = DATA_SOURCE_SQL =>
                    \A i \in 1..Len(req'[r].calls) : req'[r].calls[i].be # "mongo"
       /\ \A s \in Sessions :
             (session[s] # DATA_SOURCE_MONGO /\ session'[s] = DATA_SOURCE_MONGO) =>
                 \E r \in Workers :
                     /\ Completes(r)
                     /\ req'[r].op = "change_data_source"
                     /\ req'[r].sess = s]_vars

\* A request has just fallen back: it is about to run its SQL branch and the
\* session reads "sql" although the request started on Mongo
C9_Witness ==
    \E r \in Workers :
        /\ InFlight(r)
        /\ req[r].start = DATA_SOURCE_MONGO
        /\ req[r].ds = DATA_SOURCE_SQL
        /\ HasUnavailable(req[r])
        /\ session[req[r].sess] = DATA_SOURCE_SQL

----------------------------------------------------------------------------
\* C10: a step of a domain request changes the stored data source of a session
\* only if it is a fallback of a request of that session, and then from
\* "mongo" to "sql"; a domain request answered without MongoUnavailableError
\* ends with the session reading the data source it read at its start.
C10_SessionFrame ==
    [][/\ \A s \in Sessions :
             session'[s] # session[s] =>
                 \/ \E r \in Workers :
                       /\ Completes(r)
                       /\ req'[r].op = "change_data_source"
                       /\ req'[r].sess = s
                 \/ /\ session[s] = DATA_SOURCE_MONGO
                    /\ session'[s] = DATA_SOURCE_SQL
                    /\ \E r \in Workers : req[r].sess = s /\ FallsBack(r)
       /\ \A r \in Workers :
             (/\ Completes(r)
              /\ req'[r].op # "change_data_source"
              /\ ~HasUnavailable(req'[r])) =>
                 /\ session'[req'[r].sess] = session[req'[r].sess]
                 /\ IF session'[req'[r].sess] = "none"
                    THEN req'[r].start = DATA_SOURCE_SQL
                    ELSE req'[r].start = session'[req'[r].sess]]_vars

\* A Mongo request ended with a 404 and the session still reads "mongo"
C10_Witness ==
    \E r \in Workers :
        /\ req[r].pc = "done"
        /\ req[r].start = DATA_SOURCE_MONGO
        /\ req[r].outcome = "http404"
        /\ ~HasUnavailable(req[r])
        /\ session[req[r].sess] = DATA_SOURCE_MONGO

----------------------------------------------------------------------------
\* The handlers that take an id from the URL
IdOps == {"book_detail", "book_edit", "loan_create", "loan_return", "user_loans"}

\* The id is not one the backend's id parser accepts
Malformed(be, t) == IF be = DATA_SOURCE_MONGO THEN ~ObjectIdOk(t) ELSE ~SqlIdOk(t)

\* C11: a step of a request that takes an id, whose id is malformed for the
\* data source the request reads, ends the request with Http404, opens no
\* connection to MongoDB, leaves the session alone, and no repository call of
\* the request reaches the database, whether or not the server answers.
C11_InvalidIdentityFirst ==
    [][\A r \in Workers :
          (/\ InFlight(r)
           /\ req'[r] # req[r]
           /\ req[r].op \in IdOps
           /\ Malformed(req[r].start, req[r].id)) =>
              /\ req'[r].pc = "done"
              /\ req'[r].outcome = "http404"
              /\ mongoClient' = mongoClient
              /\ session' = session]_vars

----------------------------------------------------------------------------
\* The value of the POST field 'source' of a change_data_source request
RequestedSource(q) == q.form.user.chars

\* C12: a change_data_source request for "mongo" while pymongo is missing
\* leaves every session as it was and attaches one error notice; a request for
\* "sql", or for "mongo" while pymongo is present, leaves the requested value
\* in its session, the other sessions as they were, and attaches one info
\* notice.
C12_SwitchBackend ==
    [][\A r \in Workers :
          (Completes(r) /\ req'[r].op = "change_data_source") =>
              LET source == RequestedSource(req'[r])
                  s == req'[r].sess
                  refused == source = DATA_SOURCE_MONGO /\ ~is_available
              IN  /\ refused =>
                        /\ session' = session
                        /\ req'[r].notices = <<Notice("error", "mongo_missing")>>
                  /\ (source \in DATA_SOURCE_CHOICES /\ ~refused) =>
                        /\ session' = [session EXCEPT ![s] = source]
                        /\ req'[r].notices = <<Notice("info", source)>>]_vars

\* A switch to mongo was refused: pymongo is missing, the error notice is
\* attached and the session does not read mongo
C12_Witness ==
    \E r \in Workers :
        /\ req[r].pc = "done"
        /\ req[r].op = "change_data_source"
        /\ RequestedSource(req[r]) = DATA_SOURCE_MONGO
        /\ ~is_available
        /\ req[r].notices = <<Notice("error", "mongo_missing")>>
        /\ session[req[r].sess] # DATA_SOURCE_MONGO

----------------------------------------------------------------------------
\* The step in which request r reads its data source: the first line of every
\* domain handler
ReadsSource(r) ==
    req[r].pc = "idle" /\ req'[r].pc # "idle" /\ req'[r].op # "change_data_source"

\* C13: get_active_data_source returns "sql" or "mongo"; it returns "sql"
\* when the session holds no recognized value, and after that read the session
\* itself stores "sql"; whatever is written into a session is "sql" or "mongo".
C13_SelectorHeals ==
    [][/\ \A r \in Workers :
             ReadsSource(r) =>
                 /\ req'[r].start \in DATA_SOURCE_CHOICES
                 /\ session[req'[r].sess] \notin DATA_SOURCE_CHOICES =>
                       /\ req'[r].start = DATA_SOURCE_SQL
                       /\ session'[req'[r].sess] = DATA_SOURCE_SQL
       /\ \A s \in Sessions :
             session'[s] # session[s] => session'[s] \in DATA_SOURCE_CHOICES]_vars

----------------------------------------------------------------------------
\* The submission of request q is one the Mongo branch of its handler would
\* carry out: its id names a stored document and its fields pass the Mongo form
MongoValid(q) ==
    LET n == _object_id(q.id)
        authors == {OidTok(a) : a \in mongoAuthors}
    IN  CASE q.op = "book_create" -> MongoBookFormErrors(q.form, authors) = {}
          [] q.op = "book_edit" ->
                /\ ObjectIdOk(q.id) /\ n \in MongoBooks
                /\ MongoBookFormErrors(q.form, authors) = {}
          [] q.op = "loan_create" ->
                /\ ObjectIdOk(q.id) /\ n \in MongoBooks
                /\ FieldsValid(DATA_SOURCE_MONGO, q.form)
                /\ ~MongoHasActive(n)
          [] q.op = "loan_return" ->
                /\ ObjectIdOk(q.id) /\ n \in 1..Len(mongoLoans)
                /\ ~mongoLoans[n].returned
                /\ mongoLoans[n].user \in mongoUsers
                /\ q.form.confirm
          [] q.op = "rating_create" -> MongoRatingFormErrors(q.form) = {}
          [] OTHER -> FALSE

\* Request q wrote to backend be
WroteTo(q, be) == \E i \in 1..Len(q.writes) : q.writes[i].be = be

\* C14: a submission to a writing handler that started on Mongo, met
\* MongoUnavailableError and carried data the Mongo branch would have
\* accepted, ends with its success redirect after a write to the SQL store.
C14_WriteRetriedOnSql ==
    [][\A r \in Workers :
          (/\ Completes(r)
           /\ req'[r].op \in WriteOps
           /\ req'[r].method = "POST"
           /\ req'[r].start = DATA_SOURCE_MONGO
           /\ HasUnavailable(req'[r])
           /\ MongoValid(req'[r])) =>
              /\ req'[r].outcome = "redirect"
              /\ WroteTo(req'[r], DATA_SOURCE_SQL)]_vars

----------------------------------------------------------------------------
\* C15: no request writes to both stores; a request that has written to the
\* Mongo store is answered by that very step, has run no SQL branch, and none
\* of its repository calls raised MongoUnavailableError.
C15_NoDoubleWrite ==
    \A r \in Workers :
        LET q == req[r]
        IN  /\ ~(WroteTo(q, DATA_SOURCE_MONGO) /\ WroteTo(q, DATA_SOURCE_SQL))
            /\ Len(q.writes) <= 1
            /\ WroteTo(q, DATA_SOURCE_MONGO) =>
                  /\ q.pc = "done"
                  /\ q.outcome = "redirect"
                  /\ ~HasUnavailable(q)
                  /\ \A i \in 1..Len(q.calls) : q.calls[i].be = "mongo"

\* A book_create request has inserted its book into the Mongo store
C15_Witness ==
    \E r \in Workers :
        /\ req[r].op = "book_create"
        /\ req[r].writes = <<Write("mongo", "books", Len(mongoBooks))>>
        /\ mongoBooks[Len(mongoBooks)].title = req[r].form.title
        /\ Len(mongoBooks) > 1

----------------------------------------------------------------------------
\* The repository call request r makes in this step
CallMade(r) == req'[r].calls[Len(req'[r].calls)]
MakesMongoCall(r) ==
    /\ Len(req'[r].calls) = Len(req[r].calls) + 1
    /\ CallMade(r).be = "mongo"

\* C16: a Mongo repository call made while the server does not answer, and
\* not refused for its id, raises MongoUnavailableError, also when the client
\* was opened by an earlier request; the request is not ended by an error of
\* the driver.
C16_UnreachableIsUnavailable ==
    [][\A r \in Workers :
          (MakesMongoCall(r) /\ ~mongoUp /\ CallMade(r).res # "http404") =>
              /\ CallMade(r).res = "unavailable"
              /\ req'[r].outcome # "driver_error"]_vars

----------------------------------------------------------------------------
\* The Mongo repository reads, and whether the document a read is asked for
\* is stored
ReadCalls == {"list_books", "get_book_detail", "get_book", "list_user_loans", "get_loan"}

TargetStored(op, t) ==
    /\ op # "list_books" => ObjectIdOk(t)
    /\ op \in {"get_book_detail", "get_book"} => _object_id(t) \in MongoBooks
    /\ op = "list_user_loans" => _object_id(t) \in mongoUsers
    /\ op = "get_loan" => _object_id(t) \in 1..Len(mongoLoans)

\* C17: a Mongo repository read made while the server answers, for a stored
\* document, succeeds also when an author or a user it refers to has been
\* deleted, and every book it hands out carries either its stored author or
\* the placeholder author named "Autor desconocido".
C17_MissingReferencePlaceholder ==
    [][\A r \in Workers :
          (/\ MakesMongoCall(r)
           /\ CallMade(r).op \in ReadCalls
           /\ DbOutcome = "ok"
           /\ TargetStored(CallMade(r).op, req[r].id)) =>
              /\ CallMade(r).res = "ok"
              /\ \A bv \in req'[r].books :
                    bv.author = IF mongoBooks[bv.n].author \in mongoAuthors
                                THEN MongoAuthor(mongoBooks[bv.n].author, "name")
                                ELSE MongoAuthor(0, "Autor desconocido")]_vars

----------------------------------------------------------------------------
\* C18: with two requests in _require_client at the same time and a server
\* that answers throughout, at most one of them constructs a MongoClient, and
\* the client _require_client returns to a request has passed its ping.
C18_SharedHandleSafe ==
    /\ mongoUp => Cardinality({r \in Workers : req[r].opened}) <= 1
    /\ \A r \in Workers : req[r].handle \in {"unset", "open"}

----------------------------------------------------------------------------
\* C19: on either backend a loan creation with end_date < start_date stores
\* nothing and, when the book is found, is answered with the form carrying
\* the end_date error; a creation with end_date = start_date and a valid user,
\* for a book without unreturned loan, is answered with the redirect and
\* stores the loan; no stored loan ends before it starts.
C19_Case(r) ==
    /\ Completes(r)
    /\ req'[r].op = "loan_create"
    /\ req'[r].method = "POST"

----------------------------------------------------------------------------
\* C20: with requests handled one after the other, the step in which
\* _require_client raises MongoUnavailableError leaves no client cached; a
\* client becomes cached only in a step whose ping succeeds, that is with
\* pymongo present and the server answering; and a Mongo call made without
\* cached client while the server answers caches one and does not raise
\* MongoUnavailableError, whatever failed before.
C20_NoDeadHandle ==
    [][/\ \A r \in Workers :
             /\ FallsBack(r) => (mongoClient = "none" /\ mongoClient' = "none")
             /\ (MakesMongoCall(r) /\ mongoClient = "none" /\ is_available /\ mongoUp
                 /\ CallMade(r).res # "http404") =>
                    (mongoClient' = "open" /\ CallMade(r).res # "unavailable")
       /\ (mongoClient = "none" /\ mongoClient' # "none") =>
             (mongoClient' = "open" /\ is_available /\ mongoUp)
       /\ mongoClient' \in {"none", "open"}]_vars

\* The ping of a new client has just failed: pymongo is present, the server
\* does not answer, the request has met MongoUnavailableError and no client
\* is cached
C20_Witness ==
    \E r \in Workers :
        /\ InFlight(r)
        /\ req[r].calls = <<Call("mongo", "list_books", "unavailable")>>
        /\ is_available
        /\ ~mongoUp
        /\ mongoClient = "none"
====
